---- MODULE Spec2Model ----
(***************************************************************************)
(* AIBPS: normalization engine (src/src/aibps/normalize.py), the batch     *)
(* composite run (src/src/aibps/compute.py, main) and the dashboard's      *)
(* in-app recomputation (src/app/streamlit_app.py).                        *)
(*                                                                         *)
(* Numbers.  A float is modelled as an exact rational <<n, d>> in lowest   *)
(* terms with d > 0; <<0, 0>> is NaN (a missing value) and <<1, 0>>,       *)
(* <<-1, 0>> are +inf, -inf.  Rounding error of IEEE arithmetic is not     *)
(* modelled.                                                               *)
(*                                                                         *)
(* Dates.  A series or a table column over the monthly grid is a sequence; *)
(* position t is the t-th month-end of the grid.                           *)
(*                                                                         *)
(* Parts.  main of compute.py is modelled in two parts that meet at the    *)
(* head of its normalization loop: "setup" runs from the processed files   *)
(* and config.yaml to `base` with its raw columns and the resolved         *)
(* parameters of each pillar (lines 97-216); "pipeline" runs from `base`   *)
(* and what normalize_series returns for each pillar to the written table  *)
(* (lines 207-314).  "normalizer" calls the functions of normalize.py on   *)
(* the series of a bounded set, and "fetch" is the join-and-fill loop of   *)
(* fetch_macro_capex.py.                                                   *)
(***************************************************************************)
EXTENDS Integers, Sequences, FiniteSets, TLC

VARIABLES
    mode,       \* "setup" | "pipeline" | "normalizer" | "fetch"
    pc,         \* setup: "start" | "aborted" | "crashed" | "loaded";
                \* pipeline: "ready" | "written" | "rerun" | "aborted";
                \* normalizer: "input" | "returned"; fetch: "input" | "joined"
    files,      \* setup: data/processed/*_processed.csv, by file name
    config,     \* setup: config.yaml
    params,     \* setup: per pillar with a raw column, what get_norm_params returned
    log,        \* setup: the messages printed
    base,       \* compute.main's dataframe `base` when the normalization loop starts (raw columns)
    normOut,    \* per pillar with a raw column: what normalize_series returns for it in this run
    normRaises, \* the pillars for which normalize_series raises in this run
    table,      \* data/processed/aibps_monthly.csv
    app,        \* what one rerun of the dashboard script computed
    series,     \* normalizer: the input series; fetch: the component series joined
    call,       \* normalizer: the function called and its arguments
    result      \* normalizer: what the call returned

vars == <<mode, pc, files, config, params, log, base, normOut, normRaises, table, app, series, call, result>>

\* What only the setup part of main touches.
setupVars == <<files, config, params, log>>

-----------------------------------------------------------------------------
(* Rational arithmetic standing for float64.                               *)

Abs(x) == IF x < 0 THEN -x ELSE x

RECURSIVE GCD(_, _)
GCD(a, b) == IF b = 0 THEN a ELSE GCD(b, a % b)

NaN == <<0, 0>>
PosInf == <<1, 0>>
NegInf == <<-1, 0>>

\* n/d as a float: x/0 is +-inf, 0/0 is NaN.
Rat(n, d) ==
    IF d = 0
    THEN (IF n = 0 THEN NaN ELSE IF n > 0 THEN PosInf ELSE NegInf)
    ELSE LET g == GCD(Abs(n), Abs(d))
             s == IF d < 0 THEN -1 ELSE 1
         IN  <<(s * n) \div g, (s * d) \div g>>

Num(n) == <<n, 1>>
Zero == Num(0)

IsNaN(v) == v = NaN
IsFinite(v) == v[2] > 0

RAdd(a, b) == IF IsFinite(a) /\ IsFinite(b) THEN Rat(a[1] * b[2] + b[1] * a[2], a[2] * b[2]) ELSE NaN
RSub(a, b) == IF IsFinite(a) /\ IsFinite(b) THEN Rat(a[1] * b[2] - b[1] * a[2], a[2] * b[2]) ELSE NaN
RMul(a, b) == IF IsFinite(a) /\ IsFinite(b) THEN Rat(a[1] * b[1], a[2] * b[2]) ELSE NaN
RDiv(a, b) == IF IsFinite(a) /\ IsFinite(b) THEN Rat(a[1] * b[2], a[2] * b[1]) ELSE NaN
RLeq(a, b) == a[1] * b[2] <= b[1] * a[2]
RLess(a, b) == a[1] * b[2] < b[1] * a[2]

\* sum(skipna=True) of a sequence of floats: NaN entries are skipped, the empty sum is 0.
RECURSIVE SumSkipNa(_)
SumSkipNa(s) ==
    IF s = <<>> THEN Zero
    ELSE IF IsNaN(Head(s)) THEN SumSkipNa(Tail(s))
    ELSE RAdd(Head(s), SumSkipNa(Tail(s)))

\* The non-NaN entries of a sequence, in order (dropna).
RECURSIVE DropNa(_)
DropNa(s) ==
    IF s = <<>> THEN <<>>
    ELSE IF IsNaN(Head(s)) THEN DropNa(Tail(s))
    ELSE <<Head(s)>> \o DropNa(Tail(s))

\* mean(skipna=True): NaN when nothing is left.
MeanSkipNa(s) == LET d == DropNa(s) IN RDiv(SumSkipNa(d), Num(Len(d)))

\* The elements of sequence s at the positions of sequence idx.
Pick(s, idx) == [i \in 1..Len(idx) |-> s[idx[i]]]

\* The members of set S that occur in sequence order, as a sequence: [c for c in order if c in S].
RECURSIVE Keep(_, _)
Keep(order, S) ==
    IF order = <<>> THEN <<>>
    ELSE IF Head(order) \in S THEN <<Head(order)>> \o Keep(Tail(order), S)
    ELSE Keep(Tail(order), S)

Range(s) == {s[i] : i \in 1..Len(s)}

-----------------------------------------------------------------------------
(* Bounds of the modelled runs.                                            *)

\* Number of month-ends of the grid `idx` (compute.py:118).
NumDates == 4

Dates == 1..NumDates

\* The pillars that have a processed source file in the modelled runs; the
\* other canonical pillars have none and are skipped at compute.py:212.
SourcedPillars == {"Market", "Credit", "Capex_Supply"}

\* Slider positions tried, in tenths (the slider runs 0.0 .. 3.0 by 0.1).
SliderVals == {0, 10, 30}

\* The 0-100 score pillar p has at date t when it has one (an input of the runs).
PillarBase(p) == CASE p = "Market" -> 80 [] p = "Credit" -> 60 [] OTHER -> 40
Score(p, t) == Num((PillarBase(p) + 7 * t) % 101)

\* A raw, unnormalized observation (an index level, far outside 0-100).
RawLevel(t) == Num(1000 + t)

-----------------------------------------------------------------------------
(* compute.py: main, from the normalization loop to the write.             *)

canonical_pillars == <<"Market", "Credit", "Capex_Supply", "Infra", "Adoption", "Sentiment">>
candidate_pillars == <<"Market", "Credit", "Capex_Supply", "Infra", "Adoption", "Sentiment">>

\* raw_col = f"{name}_raw"
RawCol(name) == name \o "_raw"

\* The loop of compute.py:210-226: the pillars appended to normalized_pillars,
\* i.e. those with a raw column whose normalize_series call did not raise.
\* The loop without its try/except: a pillar whose normalization raised stays listed.
NormalizedInLoop_KeepFailed(b) ==
    Keep(canonical_pillars, {p \in Range(canonical_pillars) : RawCol(p) \in DOMAIN b})

NormalizedInLoop(b) ==
    Keep(canonical_pillars, {p \in Range(canonical_pillars) : RawCol(p) \in DOMAIN b /\ p \notin normRaises})

\* base after the loop: base[name] = norm_series for every pillar normalized.
BaseAfterLoop(b) ==
    LET done == Range(NormalizedInLoop(b))
    IN  [c \in DOMAIN b \cup done |-> IF c \in done THEN normOut[c] ELSE b[c]]

\* base[cols].mean(axis=1, skipna=True)
RowMean(b, cols) == [t \in Dates |-> MeanSkipNa([i \in 1..Len(cols) |-> b[cols[i]][t]])]

\* compute.py:236-245: if `name` is no column, build it from whichever of `sources` are columns.
Harmonize(b, name, sources) ==
    IF name \in DOMAIN b THEN b
    ELSE LET have == Keep(sources, DOMAIN b)
         IN  IF have = <<>> THEN b
             ELSE [c \in DOMAIN b \cup {name} |-> IF c = name THEN RowMean(b, have) ELSE b[c]]

BaseHarmonized(b) ==
    Harmonize(Harmonize(BaseAfterLoop(b), "Capex_Supply", <<"Capex_Supply_Manual", "Capex_Supply_Macro">>),
              "Infra", <<"Infra_Manual", "Infra_Macro">>)

\* normalized_pillars = [c for c in candidate_pillars if c in base.columns]
PillarsUsed(b) == Keep(candidate_pillars, DOMAIN b)

\* w = np.ones(n) / n, as a Series indexed by the pillars.
EqualWeights(pillars) == [p \in Range(pillars) |-> Rat(1, Len(pillars))]

\* EffectiveWeight without the mask: a missing pillar keeps its weight in total_w.
EffectiveWeight_NoMask(v, w) == w

\* effective_weights = weight_matrix.where(vals.notna()), at one row.
EffectiveWeight(v, w) == IF IsNaN(v) THEN NaN ELSE w

\* weighted_sum = (vals * effective_weights).sum(axis=1, skipna=True), at one row.
WeightedSum(row, weights, pillars) ==
    SumSkipNa([i \in 1..Len(pillars) |->
                 RMul(row[pillars[i]], EffectiveWeight(row[pillars[i]], weights[pillars[i]]))])

\* total_w = effective_weights.sum(axis=1), at one row.
TotalW(row, weights, pillars) ==
    SumSkipNa([i \in 1..Len(pillars) |-> EffectiveWeight(row[pillars[i]], weights[pillars[i]])])

\* num_pillars_available = vals.notna().sum(axis=1), at one row.
NumPillarsAvailable(row, pillars) == Cardinality({i \in 1..Len(pillars) : ~IsNaN(row[pillars[i]])})

\* composite[num_pillars_available < 2] = np.nan
MinPillars == 2

\* Composite without the 2-pillar floor of compute.py:286-288.
Composite_NoFloor(row, weights, pillars) ==
    LET weighted_sum == WeightedSum(row, weights, pillars)
        total_w == TotalW(row, weights, pillars)
    IN  IF total_w = Zero THEN NaN ELSE RDiv(weighted_sum, total_w)

\* Composite without the division by total_w: the weighted sum alone.
Composite_SumOnly(row, weights, pillars) ==
    IF NumPillarsAvailable(row, pillars) < MinPillars THEN NaN ELSE WeightedSum(row, weights, pillars)

\* compute.py:266-288 at one row: `row` maps each pillar to its value, `weights` to its weight.
Composite(row, weights, pillars) ==
    LET weighted_sum == WeightedSum(row, weights, pillars)
        total_w == TotalW(row, weights, pillars)
        composite == RDiv(weighted_sum, total_w)
        c1 == IF total_w = Zero THEN NaN ELSE composite
    IN  IF NumPillarsAvailable(row, pillars) < MinPillars THEN NaN ELSE c1

RowAt(b, pillars, t) == [p \in Range(pillars) |-> b[p][t]]

\* .rolling(3, min_periods=1).mean()
RollWindow == 3
RollMinPeriods == 1

RollingMean(s) ==
    [t \in 1..Len(s) |->
        LET w == DropNa(SubSeq(s, IF t > RollWindow THEN t - RollWindow + 1 ELSE 1, t))
        IN  IF Len(w) < RollMinPeriods THEN NaN ELSE RDiv(SumSkipNa(w), Num(Len(w)))]

\* base["AIBPS"] = composite; base["AIBPS_RA"] = base["AIBPS"].rolling(3, min_periods=1).mean()
WithComposite(b) ==
    LET pillars == PillarsUsed(b)
        weights == EqualWeights(pillars)
        AIBPS == [t \in Dates |-> Composite(RowAt(b, pillars, t), weights, pillars)]
        AIBPS_RA == RollingMean(AIBPS)
    IN  [c \in DOMAIN b \cup {"AIBPS", "AIBPS_RA"} |->
            IF c = "AIBPS" THEN AIBPS ELSE IF c = "AIBPS_RA" THEN AIBPS_RA ELSE b[c]]

\* The dates a dropna(subset=[col]) keeps, in grid order.
RECURSIVE KeptFrom(_, _)
KeptFrom(s, t) ==
    IF t > Len(s) THEN <<>>
    ELSE IF IsNaN(s[t]) THEN KeptFrom(s, t + 1)
    ELSE <<t>> \o KeptFrom(s, t + 1)

\* KeptDates without the dropna: every grid date is written.
KeptDates_All(b) == [t \in Dates |-> t]

\* out = base.dropna(subset=["AIBPS"], how="all")
KeptDates(b) == KeptFrom(b["AIBPS"], 1)

\* out.to_csv(OUT_PATH): the index (dates) and every column of out.
Written(b) ==
    LET kept == KeptDates(b)
    IN  [exists |-> TRUE, dates |-> kept, data |-> [c \in DOMAIN b |-> Pick(b[c], kept)]]

NoTable == [exists |-> FALSE, dates |-> <<>>, data |-> <<>>]

\* to_csv in append mode: the rows of the run are added below those of the file.
ToCsv_Append(old, out) ==
    IF ~old.exists THEN out
    ELSE [exists |-> TRUE, dates |-> old.dates \o out.dates,
          data |-> [c \in DOMAIN out.data |-> (IF c \in DOMAIN old.data THEN old.data[c] ELSE <<>>) \o out.data[c]]]

\* out.to_csv(OUT_PATH) on the file `old`: mode "w", the file is replaced.
ToCsv(old, out) == out

\* An exit that leaves the output file opened for writing and empty.
TableOnExit_Truncated(old) == [exists |-> TRUE, dates |-> <<>>, data |-> <<>>]

\* sys.exit(1) (compute.py:113, 230, 322) on the file `old`: main touches OUT_PATH at
\* lines 312-313 only, which an exit never reaches.
TableOnExit(old) == old

-----------------------------------------------------------------------------
(* streamlit_app.py: one rerun of the script, up to the in-app composite.  *)
(* The rows of the file are assumed to be dated 1980 or later (MIN_DATE).  *)

PILLAR_CANDIDATES == <<"Market", "Credit", "Capex_Supply", "Infra", "Adoption", "Sentiment">>

\* available_pillars = [p for p in PILLAR_CANDIDATES if p in df.columns]
AvailablePillars(tb) == Keep(PILLAR_CANDIDATES, DOMAIN tb.data)

\* w_vec: the slider values, all ones if they sum to 0, divided by their sum.
AppWeights(sl, pillars) ==
    LET total == SumSkipNa([i \in 1..Len(pillars) |-> Num(sl[pillars[i]])])
        w_vec == IF total = Zero THEN [p \in Range(pillars) |-> Num(1)]
                 ELSE [p \in Range(pillars) |-> Num(sl[p])]
        s == SumSkipNa([i \in 1..Len(pillars) |-> w_vec[pillars[i]]])
    IN  [p \in Range(pillars) |-> RDiv(w_vec[p], s)]

\* comp_in_app_raw = (pillars_df * weights).sum(axis=1), at one row.
CompInAppRaw(row, weights, pillars) ==
    SumSkipNa([i \in 1..Len(pillars) |-> RMul(row[pillars[i]], weights[pillars[i]])])

TableRow(tb, pillars, i) == [p \in Range(pillars) |-> tb.data[p][i]]

NoApp == [status |-> "none", sliders |-> <<>>, weights |-> <<>>, raw |-> <<>>, ra |-> <<>>]
Stopped == [status |-> "stopped", sliders |-> <<>>, weights |-> <<>>, raw |-> <<>>, ra |-> <<>>]

AppShown(tb, sl) ==
    LET pillars == AvailablePillars(tb)
        weights == AppWeights(sl, pillars)
        comp_in_app_raw == [i \in 1..Len(tb.dates) |-> CompInAppRaw(TableRow(tb, pillars, i), weights, pillars)]
    IN  [status |-> "shown", sliders |-> sl, weights |-> weights,
         raw |-> comp_in_app_raw, ra |-> RollingMean(comp_in_app_raw)]

-----------------------------------------------------------------------------
(* normalize.py.  A pandas Series is a function from its index (positions  *)
(* of the grid, a subset of 1..n after a dropna) to floats.                 *)
(*                                                                         *)
(* A z-score is (x - mean) / std with std a square root, and the logistic  *)
(* of it is transcendental: neither is a rational.  A z-score z is held    *)
(* exactly as its signed square sgn(z) * z^2, a rational (the map is a     *)
(* strictly increasing bijection), and sigmoid_z's value 100/(1+exp(-z))   *)
(* is held as the signed square of the clipped z it is the logistic of.    *)
(* Each function's result says which reading its floats have ("kind").      *)

\* s = series.dropna()
NotNull(sr) == [i \in {j \in DOMAIN sr : ~IsNaN(sr[j])} |-> sr[i]]

\* The index of a Series in increasing order.
RECURSIVE IndexFrom(_, _, _)
IndexFrom(S, i, n) ==
    IF i > n THEN <<>>
    ELSE IF i \in S THEN <<i>> \o IndexFrom(S, i + 1, n)
    ELSE IndexFrom(S, i + 1, n)

\* The values of Series s, in index order, when the index is a subset of 1..n.
ValuesOf(s, n) == LET idx == IndexFrom(DOMAIN s, 1, n) IN [k \in 1..Len(idx) |-> s[idx[k]]]

\* A Series on the index of s whose k-th value (in index order) is core[k].
OnIndex(s, n, core) == LET idx == IndexFrom(DOMAIN s, 1, n) IN [i \in DOMAIN s |-> core[CHOOSE k \in 1..Len(idx) : idx[k] = i]]

\* _align_output returning core as it is, on the index of the non-missing inputs only.
AlignOutput_CoreOnly(orig, core) == core

\* _align_output(orig, core): NaN everywhere, core's values at core's index.
AlignOutput(orig, core) == [i \in DOMAIN orig |-> IF i \in DOMAIN core THEN core[i] ELSE NaN]

\* series.astype(float) * np.nan
AllNaN(sr) == [i \in DOMAIN sr |-> NaN]

\* Clip0100 left out.
Clip0100_Off(v) == v

\* .clip(0.0, 100.0) of one float.
Clip0100(v) == IF IsNaN(v) THEN NaN ELSE IF RLess(v, Zero) THEN Zero ELSE IF RLess(Num(100), v) THEN Num(100) ELSE v

\* xx.rank(pct=True).iloc[-1] * 100.0 for a window xx without NaN: the rank is the
\* average rank of the ties (pandas' default method), divided by the count.
RankLastPct(xx) ==
    LET n == Len(xx)
        x == xx[n]
        less == Cardinality({k \in 1..n : RLess(xx[k], x)})
        eq == Cardinality({k \in 1..n : xx[k] = x})
    IN  Rat(100 * (2 * less + eq + 1), 2 * n)

Ok(kind, out) == [status |-> "ok", kind |-> kind, out |-> out]
Raised == [status |-> "raised", kind |-> "none", out |-> <<>>]

\* raise ValueError(f"Unknown normalization method: {method}")
UnknownMethod == [status |-> "raised", kind |-> "unknown_method", out |-> <<>>]

\* expanding_percentile(series)
expanding_percentile(sr) ==
    LET s == NotNull(sr)
        n == Len(sr)
        v == ValuesOf(s, n)
        vals == [i \in 1..Len(v) |-> Clip0100(RankLastPct(SubSeq(v, 1, i)))]
    IN  IF DOMAIN s = {} THEN Ok("score", AllNaN(sr))
        ELSE Ok("score", AlignOutput(sr, OnIndex(s, n, vals)))

\* Trailing as a centred window: it also takes the observation after the i-th.
Trailing_Centred(v, i, window) ==
    SubSeq(v, IF i > window THEN i - window + 1 ELSE 1, IF i < Len(v) THEN i + 1 ELSE i)

\* The trailing window of at most `window` observations ending at the i-th.
Trailing(v, i, window) == SubSeq(v, IF i > window THEN i - window + 1 ELSE 1, i)

Max(a, b) == IF a >= b THEN a ELSE b

\* s.rolling(window, min_periods): pandas raises ValueError for min_periods > window.
RollingRaises(window, min_periods) == window < 0 \/ min_periods < 0 \/ min_periods > window

None == -1

\* rolling_percentile(series, window, min_periods); min_periods = None is the default.
rolling_percentile(sr, window, min_periods) ==
    LET s == NotNull(sr)
        n == Len(sr)
        v == ValuesOf(s, n)
        mp == IF min_periods = None THEN Max(10, window \div 4) ELSE min_periods
        core == [i \in 1..Len(v) |->
                    LET xx == Trailing(v, i, window)
                    IN  IF Len(xx) < mp THEN NaN ELSE Clip0100(RankLastPct(xx))]
    IN  IF DOMAIN s = {} THEN Ok("score", AllNaN(sr))
        ELSE IF RollingRaises(window, mp) THEN Raised
        ELSE Ok("score", AlignOutput(sr, OnIndex(s, n, core)))

\* The sample variance (ddof = 1) of a window without NaN: NaN for fewer than 2 values.
Variance(xx) ==
    LET n == Len(xx)
        m == RDiv(SumSkipNa(xx), Num(n))
        sq == [k \in 1..n |-> RMul(RSub(xx[k], m), RSub(xx[k], m))]
    IN  IF n < 2 THEN NaN ELSE RDiv(SumSkipNa(sq), Num(n - 1))

\* A z-score that is 0 wherever the window has no spread.
ZScore_FlatIsZero(x, mean, var) ==
    LET d == RSub(x, mean)
    IN  IF IsNaN(d) \/ IsNaN(var) \/ var = Zero THEN Zero
        ELSE IF RLess(d, Zero) THEN RSub(Zero, RDiv(RMul(d, d), var))
        ELSE RDiv(RMul(d, d), var)

\* (x - mean) / std as the signed square of the quotient; x/0 is +-inf and 0/0 is NaN.
ZScore(x, mean, var) ==
    LET d == RSub(x, mean)
    IN  IF IsNaN(d) \/ IsNaN(var) THEN NaN
        ELSE IF var = Zero THEN (IF d = Zero THEN NaN ELSE IF RLess(Zero, d) THEN PosInf ELSE NegInf)
        ELSE IF RLess(d, Zero) THEN RSub(Zero, RDiv(RMul(d, d), var))
        ELSE RDiv(RMul(d, d), var)

\* z.replace([np.inf, -np.inf], np.nan)
ReplaceInf(v) == IF v = PosInf \/ v = NegInf THEN NaN ELSE v

\* rolling_z(series, window, min_periods)
rolling_z(sr, window, min_periods) ==
    LET s == NotNull(sr)
        n == Len(sr)
        v == ValuesOf(s, n)
        mp == IF min_periods = None THEN Max(6, window \div 4) ELSE min_periods
        z == [i \in 1..Len(v) |->
                LET xx == Trailing(v, i, window)
                    roll_mean == IF Len(xx) < mp THEN NaN ELSE RDiv(SumSkipNa(xx), Num(Len(xx)))
                    roll_var == IF Len(xx) < mp THEN NaN ELSE Variance(xx)
                IN  ReplaceInf(ZScore(v[i], roll_mean, roll_var))]
    IN  IF DOMAIN s = {} THEN Ok("z", AllNaN(sr))
        ELSE IF RollingRaises(window, mp) THEN Raised
        ELSE Ok("z", AlignOutput(sr, OnIndex(s, n, z)))

\* z_s.clip(-z_clip, z_clip) on the signed square of z: |z| > c iff z^2 > c^2.
ClipZ(w, z_clip) ==
    LET c2 == RMul(z_clip, z_clip)
    IN  IF RLess(c2, w) THEN c2 ELSE IF RLess(w, RSub(Zero, c2)) THEN RSub(Zero, c2) ELSE w

\* sigmoid_z(series, window, min_periods, z_clip).  sig * 100 lies strictly between 0
\* and 100 for every finite z, so the final clip(0.0, 100.0) changes nothing.
sigmoid_z(sr, window, min_periods, z_clip) ==
    LET z == rolling_z(sr, window, min_periods)
        z_s == NotNull(z.out)
        core == [i \in DOMAIN z_s |-> ClipZ(z_s[i], z_clip)]
    IN  IF z.status = "raised" THEN Raised
        ELSE IF DOMAIN z_s = {} THEN Ok("logistic", AllNaN(sr))
        ELSE Ok("logistic", AlignOutput(sr, core))

\* s.quantile(q), linear interpolation between the order statistics; q = <<a, b>> is a/b.
Quantile(v, q) ==
    LET sorted == SortSeq(v, RLess)
        n == Len(v)
        lo == (q[1] * (n - 1)) \div q[2]
        frac == Rat((q[1] * (n - 1)) % q[2], q[2])
    IN  IF frac = Zero THEN sorted[lo + 1]
        ELSE RAdd(sorted[lo + 1], RMul(frac, RSub(sorted[lo + 2], sorted[lo + 1])))

\* minmax_scale_0_100 without its q_high <= q_low branch.
minmax_scale_0_100_NoGuard(sr, lower_quantile, upper_quantile) ==
    LET s == NotNull(sr)
        v == ValuesOf(s, Len(sr))
        q_low == Quantile(v, lower_quantile)
        q_high == Quantile(v, upper_quantile)
        scaled == [i \in DOMAIN s |->
                     Clip0100(RMul(RDiv(RSub(s[i], q_low), RSub(q_high, q_low)), Num(100)))]
    IN  IF DOMAIN s = {} THEN Ok("score", AllNaN(sr))
        ELSE Ok("score", AlignOutput(sr, scaled))

\* minmax_scale_0_100(series, lower_quantile, upper_quantile)
minmax_scale_0_100(sr, lower_quantile, upper_quantile) ==
    LET s == NotNull(sr)
        v == ValuesOf(s, Len(sr))
        q_low == Quantile(v, lower_quantile)
        q_high == Quantile(v, upper_quantile)
        scaled == [i \in DOMAIN s |->
                     Clip0100(RMul(RDiv(RSub(s[i], q_low), RSub(q_high, q_low)), Num(100)))]
    IN  IF DOMAIN s = {} THEN Ok("score", AllNaN(sr))
        ELSE IF RLeq(q_high, q_low) THEN Ok("score", AlignOutput(sr, [i \in DOMAIN s |-> Num(50)]))
        ELSE Ok("score", AlignOutput(sr, scaled))

\* method.lower() on the method names of the modelled calls.
Lower(method) == IF method = "MinMax" THEN "minmax" ELSE method

\* kwargs.get that ignores what the caller passed.
Get_Default(kwargs, key, default) == default

\* kwargs.get(key, default)
Get(kwargs, key, default) == IF key \in DOMAIN kwargs THEN kwargs[key] ELSE default

\* normalize_series(series, method, **kwargs)
normalize_series(sr, method, kwargs) ==
    LET m == Lower(method)
    IN  IF m = "expanding_percentile" THEN expanding_percentile(sr)
        ELSE IF m = "rolling_percentile"
        THEN rolling_percentile(sr, Get(kwargs, "window", 60), Get(kwargs, "min_periods", None))
        ELSE IF m = "rolling_z_sigmoid"
        THEN sigmoid_z(sr, Get(kwargs, "window", 24), Get(kwargs, "min_periods", None),
                       Get(kwargs, "z_clip", Num(4)))
        ELSE IF m = "minmax"
        THEN minmax_scale_0_100(sr, Get(kwargs, "lower_quantile", <<1, 100>>),
                                Get(kwargs, "upper_quantile", <<99, 100>>))
        ELSE UnknownMethod

-----------------------------------------------------------------------------
(* compute.py: main, from the processed files to the head of the           *)
(* normalization loop.  Months are numbered 1, 2, ...; a date is a number  *)
(* too: 2m is the last day of month m and 2m - 1 a day inside month m.     *)
(* A frame's index is the set of dates it has a row for; the grid `idx` is *)
(* held as the months whose month-ends it consists of.                     *)

\* Number of months the processed files may have rows for.
NumMonths == 8

Months == 1..NumMonths

FileNames ==
    {"market_processed.csv", "credit_fred_processed.csv", "capex_processed.csv",
     "macro_capex_processed.csv", "infra_processed.csv", "infra_macro_processed.csv",
     "adoption_processed.csv", "sentiment_processed.csv"}

\* A file of data/processed: absent, one pd.read_csv fails on, or a table.
MissingFile == [state |-> "missing"]
UnreadableFile == [state |-> "unreadable"]
Frame(index, columns, data) == [state |-> "frame", index |-> index, columns |-> columns, data |-> data]

NoneDf == [state |-> "none"]

\* _read_processed(filename): None for a missing, unreadable or empty file.
read_processed(f) ==
    IF f.state = "frame" /\ f.index # {} /\ f.columns # <<>> THEN f ELSE NoneDf

Msg(kind, what) == [kind |-> kind, what |-> what]

\* What _read_processed prints for file n.
ReadMessages(fs) ==
    {Msg("missing", n) : n \in {k \in FileNames : fs[k].state = "missing"}}
    \cup {Msg("read_error", n) : n \in {k \in FileNames : fs[k].state = "unreadable"}}
    \cup {Msg("empty", n) : n \in {k \in FileNames : fs[k].state = "frame" /\ read_processed(fs[k]) = NoneDf}}

\* frames = [x for x in [...] if x is not None], by file name.
Frames(fs) == {n \in FileNames : read_processed(fs[n]).state = "frame"}

SetMin(S) == CHOOSE x \in S : \A y \in S : x <= y
SetMax(S) == CHOOSE x \in S : \A y \in S : x >= y

\* ts.to_period("M"): the month of a date; .to_timestamp("M"): the last day of a month.
MonthOf(d) == (d + 1) \div 2
MonthEnd(m) == 2 * m

\* idx = pd.date_range(start, end, freq="M"): the month-ends from the month of the
\* earliest row to the month of the latest one.
Grid(fs) ==
    LET rows == UNION {fs[n].index : n \in Frames(fs)}
    IN  MonthOf(SetMin(rows))..MonthOf(SetMax(rows))

\* col.reindex(base.index): at each month-end of the grid the value of the row with
\* exactly that date, NaN when there is none.
Reindex(col, grid) == [m \in grid |-> IF MonthEnd(m) \in DOMAIN col THEN col[MonthEnd(m)] ELSE NaN]

HasCol(df, c) == df.state = "frame" /\ c \in Range(df.columns)

\* compute.py:128-170: each raw column attached, with the file and the column it is read from.
AttachPlan(fs) ==
    LET market == read_processed(fs["market_processed.csv"])
        credit == read_processed(fs["credit_fred_processed.csv"])
        capex == read_processed(fs["capex_processed.csv"])
        macro_capex == read_processed(fs["macro_capex_processed.csv"])
        infra == read_processed(fs["infra_processed.csv"])
        infra_macro == read_processed(fs["infra_macro_processed.csv"])
        adoption == read_processed(fs["adoption_processed.csv"])
        sentiment == read_processed(fs["sentiment_processed.csv"])
    IN  (IF market.state = "frame"
         THEN {<<"Market_raw", "market_processed.csv",
                 IF HasCol(market, "Market") THEN "Market" ELSE market.columns[1]>>}
         ELSE {})
        \cup (IF credit.state = "frame"
              THEN {<<"Credit_raw", "credit_fred_processed.csv",
                      IF HasCol(credit, "Credit") THEN "Credit" ELSE credit.columns[1]>>}
              ELSE {})
        \cup (IF HasCol(capex, "Capex_Supply")
              THEN {<<"Capex_Supply_Manual_raw", "capex_processed.csv", "Capex_Supply">>}
              ELSE IF HasCol(capex, "Capex_Supply_Manual")
              THEN {<<"Capex_Supply_Manual_raw", "capex_processed.csv", "Capex_Supply_Manual">>}
              ELSE {})
        \cup (IF HasCol(macro_capex, "Capex_Supply_Macro")
              THEN {<<"Capex_Supply_Macro_raw", "macro_capex_processed.csv", "Capex_Supply_Macro">>}
              ELSE {})
        \cup (IF HasCol(infra, "Infra")
              THEN {<<"Infra_Manual_raw", "infra_processed.csv", "Infra">>}
              ELSE IF HasCol(infra, "Infra_Manual")
              THEN {<<"Infra_Manual_raw", "infra_processed.csv", "Infra_Manual">>}
              ELSE {})
        \cup (IF HasCol(infra_macro, "Infra_Macro")
              THEN {<<"Infra_Macro_raw", "infra_macro_processed.csv", "Infra_Macro">>}
              ELSE {})
        \cup (IF HasCol(adoption, "Adoption")
              THEN {<<"Adoption_raw", "adoption_processed.csv", "Adoption">>}
              ELSE {})
        \cup (IF HasCol(sentiment, "Sentiment")
              THEN {<<"Sentiment_raw", "sentiment_processed.csv", "Sentiment">>}
              ELSE {})

\* base after compute.py:123-170.
Attach(fs, grid) ==
    LET plan == AttachPlan(fs)
    IN  [c \in {p[1] : p \in plan} |->
            LET p == CHOOSE q \in plan : q[1] = c
            IN  Reindex(fs[p[2]].data[p[3]], grid)]

\* BlendMean with skipna=False: missing as soon as one of the columns is.
BlendMean_NeedAll(b, cols, grid) ==
    [m \in grid |->
        IF \E i \in 1..Len(cols) : IsNaN(b[cols[i]][m]) THEN NaN
        ELSE MeanSkipNa([i \in 1..Len(cols) |-> b[cols[i]][m]])]

\* base[cols].mean(axis=1, skipna=True) on the grid.
BlendMean(b, cols, grid) == [m \in grid |-> MeanSkipNa([i \in 1..Len(cols) |-> b[cols[i]][m]])]

\* compute.py:175-177 and 180-182: the blend column `name` of whichever of `sources` are columns.
Blend(b, name, sources, grid) ==
    LET cols == Keep(sources, DOMAIN b)
    IN  IF cols = <<>> THEN b
        ELSE [c \in DOMAIN b \cup {name} |-> IF c = name THEN BlendMean(b, cols, grid) ELSE b[c]]

\* base when the normalization loop starts (compute.py:123-182).
BaseWithRaw(fs) ==
    LET grid == Grid(fs)
    IN  Blend(Blend(Attach(fs, grid), "Capex_Supply_raw",
                    <<"Capex_Supply_Manual_raw", "Capex_Supply_Macro_raw">>, grid),
              "Infra_raw", <<"Infra_Manual_raw", "Infra_Macro_raw">>, grid)

(* config.yaml.  A YAML value is null, a scalar or a mapping; the leaves   *)
(* of a parameter mapping (a method name, a window, a z_clip) are held as  *)
(* they are passed on.                                                     *)

YNull == [t |-> "null"]
YScalar == [t |-> "scalar"]
YDict(d) == [t |-> "dict", d |-> d]
IsDict(v) == v.t = "dict"

EmptyDict == [k \in {} |-> 0]

\* `v or {}`: a null or an empty mapping gives {}, a scalar stays (the scalars
\* modelled are truthy).
OrEmpty(v) == IF v.t = "scalar" \/ (v.t = "dict" /\ DOMAIN v.d # {}) THEN v ELSE YDict(EmptyDict)

\* v.get(key, default) on a mapping.
YGet(v, key, default) == IF key \in DOMAIN v.d THEN v.d[key] ELSE default

NoConfig == [state |-> "absent"]
UnparseableConfig == [state |-> "unparseable"]
ParsedConfig(v) == [state |-> "parsed", value |-> v]

LoadRaised == [status |-> "raised", defaults |-> YNull, pillar_cfg |-> YNull, msg |-> Msg("none", "")]
Loaded(defaults, pillar_cfg, msg) ==
    [status |-> "ok", defaults |-> defaults, pillar_cfg |-> pillar_cfg, msg |-> msg]

\* _load_norm_config(): cfg.get and norm_cfg.get raise AttributeError on a value
\* that is no mapping, outside the try block.
load_norm_config(doc) ==
    IF doc.state = "absent"
    THEN Loaded(YDict(EmptyDict), YDict(EmptyDict), Msg("info", "no config.yaml"))
    ELSE IF doc.state = "unparseable"
    THEN Loaded(YDict(EmptyDict), YDict(EmptyDict), Msg("error", "failed to load config.yaml"))
    ELSE LET cfg == OrEmpty(doc.value)
         IN  IF ~IsDict(cfg) THEN LoadRaised
             ELSE LET norm_cfg == YGet(cfg, "normalization", YDict(EmptyDict))
                  IN  IF ~IsDict(norm_cfg) THEN LoadRaised
                      ELSE Loaded(OrEmpty(YGet(norm_cfg, "defaults", YDict(EmptyDict))),
                                  OrEmpty(YGet(norm_cfg, "pillars", YDict(EmptyDict))),
                                  Msg("info", "loaded config.yaml"))

\* get_norm_params raises AttributeError when pillar_cfg, the pillar's entry or
\* defaults is no mapping (pillar_cfg.get, cfg.get, defaults.get).
ParamsRaise(defaults, pillar_cfg, pillar_name) ==
    \/ ~IsDict(pillar_cfg)
    \/ ~IsDict(YGet(pillar_cfg, pillar_name, YDict(EmptyDict)))
    \/ ~IsDict(defaults)

\* {**defaults, **cfg} with the precedence turned round: a default hides the pillar's value.
Merge_DefaultsFirst(defaults, cfg) ==
    [k \in DOMAIN defaults \cup DOMAIN cfg |-> IF k \in DOMAIN defaults THEN defaults[k] ELSE cfg[k]]

\* {**defaults, **cfg}
Merge(defaults, cfg) ==
    [k \in DOMAIN defaults \cup DOMAIN cfg |-> IF k \in DOMAIN cfg THEN cfg[k] ELSE defaults[k]]

\* get_norm_params(pillar_name), when it returns.
get_norm_params(defaults, pillar_cfg, pillar_name) ==
    LET cfg == YGet(pillar_cfg, pillar_name, YDict(EmptyDict)).d
        merged == Merge(defaults.d, cfg)
        method == Get(cfg, "method", Get(defaults.d, "method", "rolling_z_sigmoid"))
        keys == (DOMAIN merged \ {"method"}) \cup {"window", "z_clip"}
        kwargs == [k \in keys |->
                      IF k \in DOMAIN merged THEN merged[k] ELSE IF k = "window" THEN 24 ELSE Num(4)]
    IN  [method |-> method, kwargs |-> kwargs]

\* The pillars of canonical_pillars that have a raw column in b, in loop order.
\* The loop without its skip: every canonical pillar is taken up.
WithRawCol_All(b) == canonical_pillars

WithRawCol(b) == Keep(canonical_pillars, {p \in Range(canonical_pillars) : RawCol(p) \in DOMAIN b})

\* The position in `todo` of the first pillar whose get_norm_params raises (0: none).
FirstRaising(loaded, todo) ==
    LET bad == {i \in 1..Len(todo) : ParamsRaise(loaded.defaults, loaded.pillar_cfg, todo[i])}
    IN  IF bad = {} THEN 0 ELSE SetMin(bad)

\* main from its first line to the last get_norm_params call of the loop
\* (compute.py:97-216), and the __main__ guard's handler (lines 317-322).
Setup(fs, doc) ==
    IF Frames(fs) = {}
    THEN [pc |-> "aborted", base |-> <<>>, params |-> <<>>,
          log |-> ReadMessages(fs) \cup {Msg("abort", "no processed pillar data")}]
    ELSE LET b == BaseWithRaw(fs)
             loaded == load_norm_config(doc)
             todo == WithRawCol(b)
             k == FirstRaising(loaded, todo)
             done == IF k = 0 THEN todo ELSE SubSeq(todo, 1, k - 1)
         IN  IF loaded.status = "raised"
             THEN [pc |-> "crashed", base |-> b, params |-> <<>>,
                   log |-> ReadMessages(fs) \cup {Msg("error", "compute.py")}]
             ELSE [pc |-> IF k = 0 THEN "loaded" ELSE "crashed",
                   base |-> b,
                   params |-> [p \in Range(done) |-> get_norm_params(loaded.defaults, loaded.pillar_cfg, p)],
                   log |-> ReadMessages(fs) \cup {loaded.msg}
                           \cup {Msg("normalizing", p) : p \in Range(done)}
                           \cup (IF k = 0 THEN {} ELSE {Msg("error", "compute.py")})]

-----------------------------------------------------------------------------
(* The setup part: the inputs tried and the action.                        *)

NoCall == [fn |-> "none"]
NoResult == [status |-> "none", out |-> <<>>]


\* What a source reports for month m.
SourceVal(c, m) ==
    CASE c = "Capex_Supply" -> Num(39 + m)
      [] c = "Capex_Supply_Macro" -> Num(60 + 2 * m)
      [] c = "Infra" -> Num(20 + m)
      [] c = "Infra_Macro" -> Num(30 + m)
      [] OTHER -> Num(1000 + m)

\* A table with the given columns and a row for each date of D.
Table(columns, D) == Frame(D, columns, [c \in Range(columns) |-> [d \in D |-> SourceVal(c, MonthOf(d))]])

\* A table with the one column c and a row dated at the month-end of each month of S,
\* and one whose rows are dated inside the months of S.
OneCol(c, S) == Table(<<c>>, {MonthEnd(m) : m \in S})
OneColMid(c, S) == Table(<<c>>, {MonthEnd(m) - 1 : m \in S})

\* macro_capex_processed.csv as fetch_macro_capex.py writes it (df.to_csv): the
\* component columns and their mean, Capex_Supply.
MacroCapexWritten(S) == Table(<<"Capex_Macro_Comp", "Capex_Supply">>, {MonthEnd(m) : m \in S})

\* infra_macro_processed.csv as fetch_infra_macro.py writes it (out.to_csv): the
\* composite Infra, then the rebased and the raw components.
InfraMacroWritten(S) ==
    Table(<<"Infra", "Infra_PowerComm_Inv_idx", "Infra_PowerComm_Inv_raw">>, {MonthEnd(m) : m \in S})

\* The sets of at most k months.
UpTo(k) == {S \in SUBSET Months : Cardinality(S) <= k}

MarketFiles == {MissingFile, UnreadableFile, OneCol("Market", {1, NumMonths}), OneCol("Close", {2})}
CapexFiles == {MissingFile, OneColMid("Capex_Supply", {3})} \cup {OneCol("Capex_Supply", S) : S \in UpTo(2)}
MacroCapexFiles ==
    {MissingFile, MacroCapexWritten({2})} \cup {OneCol("Capex_Supply_Macro", S) : S \in UpTo(1) \ {{}}}
InfraFiles == {MissingFile, OneCol("Infra", {3})}
InfraMacroFiles == {MissingFile, OneCol("Infra_Macro", {3}), OneCol("Infra_Macro", {4}), InfraMacroWritten({4})}
AdoptionFiles == {MissingFile, OneCol("Users", {5})}

FileSet(market, capex, macro_capex, infra, infra_macro, adoption) ==
    [n \in FileNames |->
        CASE n = "market_processed.csv" -> market
          [] n = "capex_processed.csv" -> capex
          [] n = "macro_capex_processed.csv" -> macro_capex
          [] n = "infra_processed.csv" -> infra
          [] n = "infra_macro_processed.csv" -> infra_macro
          [] n = "adoption_processed.csv" -> adoption
          [] OTHER -> MissingFile]

\* The processed files tried with a few configs, and the few tried with every config.
FilesWide ==
    {FileSet(a, b, c, d, e, MissingFile) :
        a \in MarketFiles, b \in CapexFiles, c \in MacroCapexFiles, d \in InfraFiles, e \in InfraMacroFiles}
FilesFew ==
    {FileSet(a, b, MissingFile, MissingFile, MissingFile, f) :
        a \in {MissingFile, OneCol("Market", {1, NumMonths})},
        b \in {MissingFile, OneCol("Capex_Supply", {2, 5})},
        f \in AdoptionFiles}

NoKey == [t |-> "nokey"]

DefaultsVals ==
    {NoKey, YNull, YScalar,
     YDict("method" :> "expanding_percentile"),
     YDict(("method" :> "rolling_percentile") @@ ("window" :> 12) @@ ("z_clip" :> Num(2))),
     YDict("min_periods" :> 2)}

PillarsVals ==
    {NoKey, YNull, YScalar,
     YDict("Capex_Supply" :> YNull),
     YDict("Market" :> YScalar),
     YDict("Infra" :> YNull),
     YDict("Capex_Supply" :> YDict("window" :> 6)),
     YDict(("Market" :> YDict(("method" :> "minmax") @@ ("lower_quantile" :> <<1, 4>>)))
           @@ ("Capex_Supply" :> YDict(("window" :> 6) @@ ("min_periods" :> 3))))}

\* The mapping under `normalization` with the given defaults and pillars sections.
Section(dv, pv) ==
    (IF dv = NoKey THEN EmptyDict ELSE "defaults" :> dv) @@ (IF pv = NoKey THEN EmptyDict ELSE "pillars" :> pv)

ConfigsWide ==
    {NoConfig, UnparseableConfig, ParsedConfig(YNull), ParsedConfig(YScalar), ParsedConfig(YDict(EmptyDict)),
     ParsedConfig(YDict("normalization" :> YNull)), ParsedConfig(YDict("normalization" :> YScalar))}
    \cup {ParsedConfig(YDict("normalization" :> YDict(Section(dv, pv)))) : dv \in DefaultsVals, pv \in PillarsVals}
ConfigsFew ==
    {NoConfig,
     ParsedConfig(YDict("normalization" :> YNull)),
     ParsedConfig(YDict("normalization" :> YDict(Section(YDict("window" :> 12), YDict("Capex_Supply" :> YDict("window" :> 6))))))}

InitSetup ==
    /\ mode = "setup"
    /\ pc = "start"
    /\ \/ files \in FilesWide /\ config \in ConfigsFew
       \/ files \in FilesFew /\ config \in ConfigsWide
    /\ params = <<>>
    /\ log = {}
    /\ base = <<>>
    /\ normOut = <<>>
    /\ normRaises = {}
    /\ table = NoTable
    /\ app = NoApp
    /\ series = <<>>
    /\ call = NoCall
    /\ result = NoResult

\* compute.py, run as a script, up to the head of its normalization loop.
SetupRun ==
    /\ mode = "setup" /\ pc = "start"
    /\ LET r == Setup(files, config)
       IN  /\ pc' = r.pc /\ base' = r.base /\ params' = r.params /\ log' = r.log
           /\ table' = IF r.pc \in {"aborted", "crashed"} THEN TableOnExit(table) ELSE table
    /\ UNCHANGED <<mode, files, config, normOut, normRaises, app, series, call, result>>

-----------------------------------------------------------------------------
(* The pipeline: one batch run, then reruns of the dashboard.              *)

\* What normalize_series may return for pillar p: missing or p's score, date by date.
NormSeries(p) == {[t \in Dates |-> IF t \in P THEN Score(p, t) ELSE NaN] : P \in SUBSET Dates}
AllMissing == [t \in Dates |-> NaN]

InitPipeline ==
    /\ mode = "pipeline"
    /\ pc = "ready"
    /\ \E src \in SUBSET SourcedPillars :
         /\ base = [c \in {RawCol(p) : p \in src} |-> [t \in Dates |-> RawLevel(t)]]
         /\ normRaises \in SUBSET src
         /\ normOut \in [src -> UNION {NormSeries(p) : p \in src} \cup {AllMissing}]
         /\ \A p \in src : IF p \in normRaises THEN normOut[p] = AllMissing
                           ELSE normOut[p] \in NormSeries(p)
    /\ table = NoTable
    /\ app = NoApp
    /\ series = <<>>
    /\ call = NoCall
    /\ result = NoResult
    /\ files = <<>> /\ config = NoConfig /\ params = <<>> /\ log = {}

\* compute.py:210-226: what the loop prints: a skip for each canonical pillar without
\* a raw column, the failure of each pillar whose normalization raised.
LoopMessages(b) ==
    {Msg("skip", p) : p \in {q \in Range(canonical_pillars) : RawCol(q) \notin DOMAIN b}}
    \cup {Msg("normalizing", p) : p \in {q \in Range(canonical_pillars) : RawCol(q) \in DOMAIN b}}
    \cup {Msg("normalization_failed", p) : p \in {q \in normRaises : RawCol(q) \in DOMAIN b}}

\* compute.py:228-230: no pillar normalized, sys.exit(1) before anything is written.
BatchAbort ==
    /\ mode = "pipeline" /\ pc = "ready"
    /\ NormalizedInLoop(base) = <<>>
    /\ pc' = "aborted"
    /\ log' = LoopMessages(base) \cup {Msg("abort", "no pillars normalized")}
    /\ table' = TableOnExit(table)
    /\ UNCHANGED <<mode, base, normOut, normRaises, app, series, call, result>>
    /\ UNCHANGED <<files, config, params>>

\* compute.py:232-314: composite, rolling average, dropna, to_csv.
BatchWrite ==
    /\ mode = "pipeline" /\ pc = "ready"
    /\ NormalizedInLoop(base) # <<>>
    /\ table' = ToCsv(table, Written(WithComposite(BaseHarmonized(base))))
    /\ pc' = "written"
    /\ log' = LoopMessages(base)
    /\ UNCHANGED <<mode, base, normOut, normRaises, app, series, call, result>>
    /\ UNCHANGED <<files, config, params>>

\* compute.py run a second time on the same processed files and config: main reads
\* the *_processed.csv files only, never aibps_monthly.csv, and writes the table again.
BatchRerun ==
    /\ mode = "pipeline" /\ pc = "written" /\ app = NoApp
    /\ NormalizedInLoop(base) # <<>>
    /\ table' = ToCsv(table, Written(WithComposite(BaseHarmonized(base))))
    /\ pc' = "rerun"
    /\ log' = LoopMessages(base)
    /\ UNCHANGED <<mode, base, normOut, normRaises, app, series, call, result>>
    /\ UNCHANGED <<files, config, params>>

\* Between two batch runs the inputs change so that the next run normalizes no pillar:
\* the processed files come to hold no pillar column (_read_processed and the column
\* tests of compute.py:128-170), or every normalization comes to raise (217-223).  The
\* table of the earlier run stays on disk.
InputsChange ==
    /\ mode = "pipeline" /\ pc = "written" /\ app = NoApp
    /\ \/ base' = <<>> /\ normOut' = <<>> /\ normRaises' = {}
       \/ /\ base # <<>>
          /\ base' = base
          /\ normOut' = [p \in DOMAIN normOut |-> AllMissing]
          /\ normRaises' = DOMAIN normOut
    /\ pc' = "ready"
    /\ UNCHANGED <<mode, table, app, series, call, result>>
    /\ UNCHANGED setupVars

\* The script keeps nothing between reruns: every rerun recomputes from the file
\* and the sliders, so a second rerun reaches no state the first does not, and
\* the actions below model the first rerun after the batch run.

\* streamlit_app.py:34-58: st.stop() when the file is missing or empty.
AppStop ==
    /\ mode = "pipeline" /\ pc \in {"written", "aborted"} /\ app = NoApp
    /\ \/ ~table.exists
       \/ table.dates = <<>>
       \/ AvailablePillars(table) = <<>>
    /\ app' = Stopped
    /\ UNCHANGED <<mode, pc, base, normOut, normRaises, table, series, call, result>>
    /\ UNCHANGED setupVars

\* streamlit_app.py:60-111: the sliders are read and the composite recomputed.
AppRecompute ==
    /\ mode = "pipeline" /\ pc = "written" /\ app = NoApp
    /\ table.exists /\ table.dates # <<>> /\ AvailablePillars(table) # <<>>
    /\ \E sl \in [Range(AvailablePillars(table)) -> SliderVals] : app' = AppShown(table, sl)
    /\ UNCHANGED <<mode, pc, base, normOut, normRaises, table, series, call, result>>
    /\ UNCHANGED setupVars

\* Direct calls of the normalizer: the inputs tried.
MaxLen == 3

SeriesVals == {NaN, Num(1), Num(2), Num(3)}
AllSeries == UNION {[1..n -> SeriesVals] : n \in 0..MaxLen}

Windows == {None, 2, 3}
MinPeriods == {None, 1, 2, 3}
ZClips == {NaN, Num(1)}
QuantilePairs == {<<NaN, NaN>>, <<(<<1, 4>>), (<<3, 4>>)>>}

\* The keyword arguments of a call: a key is passed unless its value is None (NaN for a float).
Kwargs(window, min_periods, z_clip, quantiles) ==
    LET keys == (IF window = None THEN {} ELSE {"window"})
                \cup (IF min_periods = None THEN {} ELSE {"min_periods"})
                \cup (IF IsNaN(z_clip) THEN {} ELSE {"z_clip"})
                \cup (IF IsNaN(quantiles[1]) THEN {} ELSE {"lower_quantile", "upper_quantile"})
    IN  [k \in keys |->
            CASE k = "window" -> window
              [] k = "min_periods" -> min_periods
              [] k = "z_clip" -> z_clip
              [] k = "lower_quantile" -> quantiles[1]
              [] OTHER -> quantiles[2]]

NoKw == Kwargs(None, None, NaN, <<NaN, NaN>>)

NormalizeCalls ==
    {[fn |-> "normalize_series", method |-> "expanding_percentile", kwargs |-> NoKw]}
    \cup {[fn |-> "normalize_series", method |-> "rolling_percentile",
           kwargs |-> Kwargs(w, mp, NaN, <<NaN, NaN>>)] : w \in Windows, mp \in MinPeriods}
    \cup {[fn |-> "normalize_series", method |-> "rolling_z_sigmoid",
           kwargs |-> Kwargs(w, mp, zc, <<NaN, NaN>>)] : w \in Windows, mp \in MinPeriods, zc \in ZClips}
    \cup {[fn |-> "normalize_series", method |-> m, kwargs |-> Kwargs(None, None, NaN, q)] :
              m \in {"minmax", "MinMax"}, q \in QuantilePairs}
    \cup {[fn |-> "normalize_series", method |-> "zscore", kwargs |-> NoKw]}

RollingZCalls ==
    {[fn |-> "rolling_z", method |-> "", kwargs |-> Kwargs(w, mp, NaN, <<NaN, NaN>>)] :
        w \in Windows \ {None}, mp \in MinPeriods}

InitNormalizer ==
    /\ mode = "normalizer"
    /\ pc = "input"
    /\ series \in AllSeries
    /\ call = NoCall
    /\ result = NoResult
    /\ base = <<>>
    /\ normOut = <<>>
    /\ normRaises = {}
    /\ table = NoTable
    /\ app = NoApp
    /\ files = <<>> /\ config = NoConfig /\ params = <<>> /\ log = {}

\* A caller runs normalize_series(series, method, **kwargs).
CallNormalizeSeries ==
    /\ mode = "normalizer" /\ pc = "input"
    /\ \E c \in NormalizeCalls :
         /\ call' = c
         /\ result' = normalize_series(series, c.method, c.kwargs)
    /\ pc' = "returned"
    /\ UNCHANGED <<mode, base, normOut, normRaises, table, app, series>>
    /\ UNCHANGED setupVars

\* A caller runs rolling_z(series, window, min_periods).
CallRollingZ ==
    /\ mode = "normalizer" /\ pc = "input"
    /\ \E c \in RollingZCalls :
         /\ call' = c
         /\ result' = rolling_z(series, c.kwargs["window"], Get(c.kwargs, "min_periods", None))
    /\ pc' = "returned"
    /\ UNCHANGED <<mode, base, normOut, normRaises, table, app, series>>
    /\ UNCHANGED setupVars

-----------------------------------------------------------------------------
(* fetch_macro_capex.py: the loop that joins a component series to the     *)
(* frame on the macro index and forward-fills it (lines 365-374).          *)

\* Series.ffill(): each position takes the last value at or before it.
Ffill(s) ==
    [t \in DOMAIN s |->
        LET obs == {u \in DOMAIN s : u <= t /\ ~IsNaN(s[u])}
        IN  IF obs = {} THEN NaN ELSE s[SetMax(obs)]]

\* df.join(ser, how="outer")[name] for df on `index`: the union of the two indexes.
JoinOuter(index, ser) == [m \in index \cup DOMAIN ser |-> IF m \in DOMAIN ser THEN ser[m] ELSE NaN]

\* The macro index is the monthly range of the FRED block; a component reports in some months.
ComponentSeries == {[m \in S |-> SourceVal("Capex_Supply", m)] : S \in UpTo(2) \ {{}}}

InitFetch ==
    /\ mode = "fetch"
    /\ pc = "input"
    /\ series \in ComponentSeries
    /\ call = NoCall
    /\ result = NoResult
    /\ base = <<>>
    /\ normOut = <<>>
    /\ normRaises = {}
    /\ table = NoTable
    /\ app = NoApp
    /\ files = <<>> /\ config = NoConfig /\ params = <<>> /\ log = {}

\* One turn of the loop of fetch_macro_capex.py:369-374 for the component `series`.
JoinComponent ==
    /\ mode = "fetch" /\ pc = "input"
    /\ call' = [fn |-> "join_ffill"]
    /\ result' = Ok("raw", Ffill(JoinOuter(Months, series)))
    /\ pc' = "joined"
    /\ UNCHANGED <<mode, base, normOut, normRaises, table, app, series>>
    /\ UNCHANGED setupVars

Init == InitSetup \/ InitPipeline \/ InitNormalizer \/ InitFetch

Next == SetupRun \/ BatchAbort \/ BatchWrite \/ BatchRerun \/ InputsChange \/ AppStop \/ AppRecompute \/ CallNormalizeSeries \/ CallRollingZ
           \/ JoinComponent

Spec == Init /\ [][Next]_vars

-----------------------------------------------------------------------------
(* The claims.  What they are stated over:                                 *)

\* The pillars whose normalize_series call returned in this run, and those of
\* them that have a value at grid date t.
NormalizedSet == DOMAIN normOut \ normRaises
PresentPillars(t) == {p \in NormalizedSet : ~IsNaN(normOut[p][t])}

\* The row of the written table dated t (0 when it has none), and the composite
\* columns of the table at a grid date: missing when the table has no such row.
RowOfDate(t) ==
    IF \E i \in 1..Len(table.dates) : table.dates[i] = t
    THEN CHOOSE i \in 1..Len(table.dates) : table.dates[i] = t
    ELSE 0
RawAt(t) == IF RowOfDate(t) = 0 THEN NaN ELSE table.data["AIBPS"][RowOfDate(t)]
SmoothedAt(t) == IF RowOfDate(t) = 0 THEN NaN ELSE table.data["AIBPS_RA"][RowOfDate(t)]

\* The sum of f over the finite set S.
RECURSIVE SumOver(_, _)
SumOver(S, f) ==
    IF S = {} THEN Zero
    ELSE LET x == CHOOSE y \in S : TRUE IN RAdd(f[x], SumOver(S \ {x}, f))

\* sum(w_i * x_i) over S with each weight divided by the sum of the weights over S.
Renormalized(S, x, w) ==
    LET W == SumOver(S, [p \in S |-> w[p]])
    IN  SumOver(S, [p \in S |-> RMul(RDiv(w[p], W), x[p])])

\* Weight vectors tried for the aggregator on the rows of a run.
WeightVals == {Zero, <<1, 5>>, <<3, 10>>, <<1, 2>>}
WeightVectors == [NormalizedSet -> WeightVals]

\* The state right after a batch run that wrote the table.
BatchDone == mode = "pipeline" /\ pc = "written" /\ app = NoApp

\* The grid row of the normalized pillars at date t, and the pillars in the order main uses.
GridRow(t) == [p \in NormalizedSet |-> normOut[p][t]]
RunPillars == Keep(candidate_pillars, NormalizedSet)

\* C1. Coverage floor: at every grid date where fewer than 2 pillars have a value,
\* the composite of the batch run is missing, and the aggregator's row formula gives
\* missing there for every weight vector.
C1_CoverageFloor ==
    (mode = "pipeline" /\ pc = "written") =>
        \A t \in Dates :
            Cardinality(PresentPillars(t)) < 2 =>
                /\ IsNaN(RawAt(t))
                /\ BatchDone => \A w \in WeightVectors : IsNaN(Composite(GridRow(t), w, RunPillars))

\* C1 happens: a table was written, and at some date exactly one pillar has a value.
C1_Witness ==
    /\ BatchDone /\ table.dates # <<>>
    /\ \E t \in Dates : Cardinality(PresentPillars(t)) = 1 /\ IsNaN(RawAt(t))

\* C2. Renormalization: at every grid date where at least 2 pillars have a value, the
\* composite is sum(w_i * x_i) over the present pillars with each weight divided by the
\* sum of the present weights: the batch run's composite with its equal weights, and the
\* aggregator's row formula for every weight vector whose present weights do not sum to
\* 0; weights [0.6, 0.4] on [80, 60] give 72, and [0.5, 0.3, 0.2] on [missing, 70, 50]
\* give 62.
C2_Renormalization ==
    /\ (mode = "pipeline" /\ pc = "written") =>
          \A t \in Dates :
              Cardinality(PresentPillars(t)) >= 2 =>
                  /\ RawAt(t) = Renormalized(PresentPillars(t), GridRow(t),
                                             [p \in NormalizedSet |-> Rat(1, Cardinality(NormalizedSet))])
                  /\ BatchDone =>
                        \A w \in WeightVectors :
                            SumOver(PresentPillars(t), w) # Zero =>
                                Composite(GridRow(t), w, RunPillars) = Renormalized(PresentPillars(t), GridRow(t), w)
    /\ Composite([p \in {"A", "B"} |-> IF p = "A" THEN Num(80) ELSE Num(60)],
                 [p \in {"A", "B"} |-> IF p = "A" THEN <<3, 5>> ELSE <<2, 5>>], <<"A", "B">>) = Num(72)
    /\ Composite([p \in {"A", "B", "C"} |-> CASE p = "A" -> NaN [] p = "B" -> Num(70) [] OTHER -> Num(50)],
                 [p \in {"A", "B", "C"} |-> CASE p = "A" -> <<1, 2>> [] p = "B" -> <<3, 10>> [] OTHER -> <<1, 5>>],
                 <<"A", "B", "C">>) = Num(62)

\* C2 happens: three pillars were normalized and at some date one of them is missing
\* while the other two have a value, and the composite is defined there.
C2_Witness ==
    /\ BatchDone /\ Cardinality(NormalizedSet) = 3
    /\ \E t \in Dates : Cardinality(PresentPillars(t)) = 2 /\ ~IsNaN(RawAt(t))

\* C3. The dashboard's in-app raw composite equals, at every row of the persisted table,
\* the aggregator's result (compute.py:266-288) for the same pillar values and weights.
C3_AppIsAggregator ==
    app.status = "shown" =>
        \A i \in 1..Len(table.dates) :
            app.raw[i] = Composite(TableRow(table, AvailablePillars(table), i), app.weights,
                                   AvailablePillars(table))

\* The raw composite a series (over the rows of the table) has at grid date t: missing
\* when the table has no row dated t.
AtDate(col, t) == IF RowOfDate(t) = 0 THEN NaN ELSE col[RowOfDate(t)]

\* The mean of the non-missing values of col among the 3 consecutive grid periods ending at t.
GridWindowMean(col, t) ==
    LET W == {u \in Dates : u <= t /\ u > t - 3 /\ ~IsNaN(AtDate(col, u))}
    IN  RDiv(SumOver(W, [u \in W |-> AtDate(col, u)]), Num(Cardinality(W)))

\* C4. Smoothing: at every date of the table, the smoothed composite is the mean of the
\* non-missing raw composite values among the 3 consecutive grid periods ending at that
\* date, for the batch run's AIBPS_RA and for the dashboard's recomputed rolling average.
C4_SmoothingIsGridWindowMean ==
    /\ (mode = "pipeline" /\ pc = "written") =>
          \A i \in 1..Len(table.dates) :
              table.data["AIBPS_RA"][i] = GridWindowMean(table.data["AIBPS"], table.dates[i])
    /\ app.status = "shown" =>
          \A i \in 1..Len(table.dates) : app.ra[i] = GridWindowMean(app.raw, table.dates[i])

\* C5. At every grid date where fewer than 2 pillars have a value, the smoothed composite
\* (like the raw one) is missing in the output of the batch run.
C5_SmoothedNeedsCoverage ==
    (mode = "pipeline" /\ pc = "written") =>
        \A t \in Dates : Cardinality(PresentPillars(t)) < 2 => IsNaN(SmoothedAt(t)) /\ IsNaN(RawAt(t))

\* C5 happens: coverage fails at a date whose predecessor has a composite, so that the
\* trailing mean computed on the grid has a value there.
C5_Witness ==
    /\ BatchDone
    /\ \E t \in Dates : t > 1 /\ Cardinality(PresentPillars(t)) < 2 /\ ~IsNaN(RawAt(t - 1))

\* C6. When every slider is 0, equal weights are substituted and the in-app composite of
\* a row is the plain mean of the pillars present in that row.
C6_ZeroWeightsGivePlainMean ==
    (app.status = "shown" /\ \A p \in DOMAIN app.sliders : app.sliders[p] = 0) =>
        /\ \A p \in DOMAIN app.weights : app.weights[p] = Rat(1, Cardinality(DOMAIN app.weights))
        /\ \A i \in 1..Len(table.dates) :
              LET row == TableRow(table, AvailablePillars(table), i)
                  present == {p \in DOMAIN row : ~IsNaN(row[p])}
              IN  app.raw[i] = RDiv(SumOver(present, row), Num(Cardinality(present)))

\* C7. At a row where the weights of the pillars present sum to 0, the in-app composite is
\* missing: never 0.
C7_ZeroPresentWeightIsMissing ==
    app.status = "shown" =>
        \A i \in 1..Len(table.dates) :
            LET row == TableRow(table, AvailablePillars(table), i)
                present == {p \in DOMAIN row : ~IsNaN(row[p])}
            IN  SumOver(present, app.weights) = Zero => IsNaN(app.raw[i])

\* Whether a float of a normalizer result lies in [0, 100] or is missing.  A "logistic"
\* float w stands for 100 / (1 + exp(-z)) with z the real (or +-inf) whose signed square
\* is w: that number lies in [0, 100] for every such z.
InRange(kind, v) ==
    \/ IsNaN(v)
    \/ kind = "score" /\ IsFinite(v) /\ RLeq(Zero, v) /\ RLeq(v, Num(100))
    \/ kind = "logistic"

Apply(c, sr) ==
    IF c.fn = "rolling_z" THEN rolling_z(sr, c.kwargs["window"], Get(c.kwargs, "min_periods", None))
    ELSE normalize_series(sr, c.method, c.kwargs)

\* The series that agree with sr on every date <= t.
AgreeUpTo(sr, t) == {s2 \in AllSeries : Len(s2) >= t /\ \A i \in 1..t : s2[i] = sr[i]}

\* The value returned at t is the value returned, at t, on every series that agrees with
\* the input on the dates <= t (whenever that call returns).
CausalAtReturn ==
    \A t \in 1..Len(series) :
        \A s2 \in AgreeUpTo(series, t) :
            LET r2 == Apply(call, s2) IN r2.status = "ok" => r2.out[t] = result.out[t]

TrailingMethods == {"expanding_percentile", "rolling_percentile", "rolling_z_sigmoid"}

\* C9. expanding_percentile, rolling_percentile, rolling_z and sigmoid_z are causal: two
\* series that agree on all dates <= t get the same output at t.
C9_TrailingCausal ==
    (mode = "normalizer" /\ pc = "returned" /\ result.status = "ok"
        /\ (call.fn = "rolling_z" \/ call.method \in TrailingMethods)) => CausalAtReturn

\* C9 happens: a trailing-window call returned a value at a date that later observations follow.
C9_Witness ==
    /\ mode = "normalizer" /\ pc = "returned" /\ result.status = "ok"
    /\ call.method = "rolling_z_sigmoid"
    /\ \E t \in 1..Len(series) : t < Len(series) /\ ~IsNaN(result.out[t]) /\ ~IsNaN(series[t + 1])

\* C10. Every method of normalize_series, minmax included, is causal.
C10_AllMethodsCausal ==
    (mode = "normalizer" /\ pc = "returned" /\ result.status = "ok" /\ call.fn = "normalize_series")
        => CausalAtReturn

-----------------------------------------------------------------------------
(* Claims on the setup part.                                               *)

\* The state after main ran up to the head of its loop, or exited before.
SetupDone == mode = "setup" /\ pc # "start"

\* The pillars that have a raw series in the run: a readable file with the expected column.
PillarsWithData == IF Frames(files) = {} THEN {} ELSE Range(WithRawCol(BaseWithRaw(files)))

\* C11. The batch run exits with a non-zero status if and only if no pillar has usable
\* data: before the loop only when no pillar has a raw series, at the loop's end exactly
\* when no pillar was normalized; in every other case it writes the table.
C11_AbortIffNoPillar ==
    /\ SetupDone => (pc \in {"aborted", "crashed"} => PillarsWithData = {})
    /\ (mode = "pipeline" /\ pc # "ready") =>
          /\ pc = "aborted" <=> NormalizedSet = {}
          /\ pc # "aborted" => table.exists

\* The value under `key` of a mapping (null when there is none, or no mapping), and the
\* mapping a value is (empty when it is none).
Child(v, key) == IF v.t = "dict" /\ key \in DOMAIN v.d THEN v.d[key] ELSE YNull
AsMap(v) == IF v.t = "dict" THEN v.d ELSE EmptyDict

\* normalization.defaults and normalization.pillars.<p> of config.yaml, as far as they
\* are well-formed mappings.
DocRoot == IF config.state = "parsed" THEN config.value ELSE YNull
DocDefaults == AsMap(Child(Child(DocRoot, "normalization"), "defaults"))
DocPillar(p) == AsMap(Child(Child(Child(DocRoot, "normalization"), "pillars"), p))

HardCoded == ("method" :> "rolling_z_sigmoid") @@ ("window" :> 24) @@ ("z_clip" :> Num(4))

\* Pillar override, else global default, else hard-coded fallback, key by key.
Resolved(p) == DocPillar(p) @@ DocDefaults @@ HardCoded

IsResolved(p) ==
    /\ params[p].method = Resolved(p)["method"]
    /\ DOMAIN params[p].kwargs = DOMAIN Resolved(p) \ {"method"}
    /\ \A k \in DOMAIN params[p].kwargs : params[p].kwargs[k] = Resolved(p)[k]

\* C12. Whatever config.yaml is (absent, unparseable, or with a section or a pillar entry
\* that is null or a scalar), a run that has processed data reaches the normalization of
\* every pillar with data, with the parameters of the well-formed part of the document,
\* and prints a message about the config.
C12_MalformedConfigNonFatal ==
    (SetupDone /\ Frames(files) # {}) =>
        /\ pc = "loaded"
        /\ \A p \in PillarsWithData : p \in DOMAIN params /\ IsResolved(p)
        /\ \E m \in log : m.what \in {"no config.yaml", "failed to load config.yaml", "loaded config.yaml"}

\* C13. Every pillar's resolved method and parameters are, key by key, the pillar's
\* override if it defines the key, else the global default, else the hard-coded fallback
\* (method rolling_z_sigmoid, window 24, z_clip 4.0; no fallback for any other key).
C13_ConfigPrecedence ==
    SetupDone => \A p \in DOMAIN params : IsResolved(p)

\* C13 happens: a pillar overrides window while method and z_clip come from the defaults,
\* which define another window.
C13_Witness ==
    /\ SetupDone /\ pc = "loaded"
    /\ \E p \in DOMAIN params :
          /\ DOMAIN DocPillar(p) = {"window"}
          /\ {"method", "window", "z_clip"} \subseteq DOMAIN DocDefaults
          /\ DocPillar(p)["window"] # DocDefaults["window"]
          /\ params[p].kwargs["window"] = DocPillar(p)["window"]

\* A source column by month: the value of its row dated in month m.
ByMonth(col) ==
    [m \in {MonthOf(d) : d \in DOMAIN col} |-> col[CHOOSE d \in DOMAIN col : MonthOf(d) = m]]

\* The month of the last observation of series s (a function of months), if it has one.
LastObs(s) == SetMax({m \in DOMAIN s : ~IsNaN(s[m])})
HasObs(s) == \E m \in DOMAIN s : ~IsNaN(s[m])

\* Series `filled` holds the last observation of `src` for 6 months after it and is
\* missing from the 7th month on.
BoundedFill(src, filled) ==
    HasObs(src) =>
        \A m \in DOMAIN filled :
            /\ (m > LastObs(src) /\ m <= LastObs(src) + 6) => filled[m] = src[LastObs(src)]
            /\ m > LastObs(src) + 6 => IsNaN(filled[m])

\* C14. A source whose last observation is in month M has its value at the grid months
\* M+1..M+6 and a missing value from M+7 on: in the raw columns main attaches to the grid,
\* and in the component columns the macro-capex fetcher fills.
C14_BoundedForwardFill ==
    /\ (SetupDone /\ Frames(files) # {}) =>
          \A p \in AttachPlan(files) : BoundedFill(ByMonth(files[p[2]].data[p[3]]), base[p[1]])
    /\ (mode = "fetch" /\ pc = "joined") => BoundedFill(series, result.out)

\* The value the source file n has in column c at the month-end of month m (missing: no
\* such file, column or row).
SourceAt(n, c, m) ==
    LET df == read_processed(files[n])
    IN  IF HasCol(df, c) /\ MonthEnd(m) \in df.index THEN df.data[c][MonthEnd(m)] ELSE NaN

\* The mean of the non-missing ones of two values: the other one when one is missing.
MeanOfPresent(a, b) ==
    IF IsNaN(a) THEN b ELSE IF IsNaN(b) THEN a ELSE RDiv(RAdd(a, b), Num(2))

\* C15. At every grid date, the pre-normalization value of Capex_Supply and of Infra is
\* the mean of whichever of its manual and macro sub-series are non-missing there: the one
\* available when only one is, missing only when both are.
C15_BlendRule ==
    (SetupDone /\ Frames(files) # {}) =>
        /\ \A m \in Grid(files) :
              LET manual == SourceAt("capex_processed.csv", "Capex_Supply", m)
                  macro == SourceAt("macro_capex_processed.csv", "Capex_Supply_Macro", m)
              IN  IF "Capex_Supply_raw" \in DOMAIN base
                  THEN base["Capex_Supply_raw"][m] = MeanOfPresent(manual, macro)
                  ELSE IsNaN(manual) /\ IsNaN(macro)
        /\ \A m \in Grid(files) :
              LET manual == SourceAt("infra_processed.csv", "Infra", m)
                  macro == SourceAt("infra_macro_processed.csv", "Infra_Macro", m)
              IN  IF "Infra_raw" \in DOMAIN base
                  THEN base["Infra_raw"][m] = MeanOfPresent(manual, macro)
                  ELSE IsNaN(manual) /\ IsNaN(macro)

\* C15 happens: Capex_Supply has both variants in one month (the blend is their mean) and
\* only the manual one in another, and Infra has only its macro variant in some month.
C15_Witness ==
    /\ SetupDone /\ Frames(files) # {} /\ {"Capex_Supply_raw", "Infra_raw"} \subseteq DOMAIN base
    /\ \E m \in Grid(files) :
          /\ ~IsNaN(SourceAt("capex_processed.csv", "Capex_Supply", m))
          /\ ~IsNaN(SourceAt("macro_capex_processed.csv", "Capex_Supply_Macro", m))
          /\ base["Capex_Supply_raw"][m] # SourceAt("capex_processed.csv", "Capex_Supply", m)
    /\ \E m \in Grid(files) :
          /\ ~IsNaN(SourceAt("capex_processed.csv", "Capex_Supply", m))
          /\ IsNaN(SourceAt("macro_capex_processed.csv", "Capex_Supply_Macro", m))
          /\ base["Capex_Supply_raw"][m] = SourceAt("capex_processed.csv", "Capex_Supply", m)
    /\ \E m \in Grid(files) :
          /\ IsNaN(SourceAt("infra_processed.csv", "Infra", m))
          /\ base["Infra_raw"][m] = SourceAt("infra_macro_processed.csv", "Infra_Macro", m)
          /\ ~IsNaN(base["Infra_raw"][m])

-----------------------------------------------------------------------------
(* Claims on the dispatcher, the rerun and the shape of the outputs.       *)

NormalizeReturned == mode = "normalizer" /\ pc = "returned" /\ call.fn = "normalize_series"

\* The method names normalize_series accepts, in the spellings called.
AcceptedNames == {"expanding_percentile", "rolling_percentile", "rolling_z_sigmoid", "minmax", "MinMax"}

\* The parameter `key` of the call: what the caller passed, else the dispatcher's default.
Passed(key, default) == IF key \in DOMAIN call.kwargs THEN call.kwargs[key] ELSE default

\* C16. normalize_series raises the unknown-method error exactly when the method is none
\* of its method names; otherwise it returns what the matching transform returns for the
\* window, min_periods, z_clip, lower_quantile and upper_quantile passed.
C16_Dispatcher ==
    NormalizeReturned =>
        /\ result = UnknownMethod <=> call.method \notin AcceptedNames
        /\ call.method = "expanding_percentile" => result = expanding_percentile(series)
        /\ call.method = "rolling_percentile" =>
              result = rolling_percentile(series, Passed("window", 60), Passed("min_periods", None))
        /\ call.method = "rolling_z_sigmoid" =>
              result = sigmoid_z(series, Passed("window", 24), Passed("min_periods", None), Passed("z_clip", Num(4)))
        /\ call.method \in {"minmax", "MinMax"} =>
              result = minmax_scale_0_100(series, Passed("lower_quantile", <<1, 100>>),
                                          Passed("upper_quantile", <<99, 100>>))

\* C16 happens: rolling_z_sigmoid was called with window, min_periods and z_clip and
\* returned a value that the defaults (min_periods 6) could not give on so short a series.
C16_Witness ==
    /\ NormalizeReturned /\ result.status = "ok" /\ call.method = "rolling_z_sigmoid"
    /\ DOMAIN call.kwargs = {"window", "min_periods", "z_clip"}
    /\ \E i \in DOMAIN result.out : ~IsNaN(result.out[i])

InWindow(i, window) ==
    LET obs == Cardinality({j \in 1..i : ~IsNaN(series[j])})
    IN  IF obs < window THEN obs ELSE window

\* min_periods of the call: what was passed, else the default of the function.
MinPeriodsUsed(floor, window) ==
    IF "min_periods" \in DOMAIN call.kwargs THEN call.kwargs["min_periods"] ELSE Max(floor, window \div 4)

\* C18. Whatever normalize_series returns has exactly the input's index; it is missing
\* where the input is missing, and where the trailing window holds fewer observations
\* than min_periods (fewer than 2 for the z-score).
C18_SameIndexNoFabrication ==
    (NormalizeReturned /\ result.status = "ok") =>
        /\ DOMAIN result.out = DOMAIN series
        /\ \A i \in DOMAIN series : IsNaN(series[i]) => IsNaN(result.out[i])
        /\ call.method = "rolling_percentile" =>
              \A i \in DOMAIN series :
                  InWindow(i, Passed("window", 60)) < MinPeriodsUsed(10, Passed("window", 60))
                      => IsNaN(result.out[i])
        /\ call.method = "rolling_z_sigmoid" =>
              \A i \in DOMAIN series :
                  (InWindow(i, Passed("window", 24)) < MinPeriodsUsed(6, Passed("window", 24))
                     \/ InWindow(i, Passed("window", 24)) < 2)
                      => IsNaN(result.out[i])

\* C18 happens: the input has a missing value between observations, and the output is
\* missing at an observation with too short a window and has a value at a later one.
C18_Witness ==
    /\ NormalizeReturned /\ result.status = "ok" /\ call.method = "rolling_percentile"
    /\ \E i, j, k \in DOMAIN series :
          /\ i < j /\ j < k
          /\ ~IsNaN(series[i]) /\ IsNaN(result.out[i])
          /\ IsNaN(series[j])
          /\ ~IsNaN(result.out[k])

\* C19. The written table has one row for every date of the grid, in order, each with the
\* raw composite, the smoothed composite and the pillar columns.
C19_OneRowPerGridDate ==
    (mode = "pipeline" /\ pc \in {"written", "rerun"}) =>
        /\ table.dates = [t \in Dates |-> t]
        /\ {"AIBPS", "AIBPS_RA"} \cup NormalizedSet \subseteq DOMAIN table.data

\* C20. On a series whose non-missing values are non-decreasing in time, the defined
\* outputs of expanding_percentile are non-decreasing in time.
C20_ExpandingMonotone ==
    (NormalizeReturned /\ call.method = "expanding_percentile"
        /\ \A i, j \in DOMAIN series :
              (i < j /\ ~IsNaN(series[i]) /\ ~IsNaN(series[j])) => RLeq(series[i], series[j]))
    => \A i, j \in DOMAIN result.out :
          (i < j /\ ~IsNaN(result.out[i]) /\ ~IsNaN(result.out[j])) => RLeq(result.out[i], result.out[j])

-----------------------------------------------------------------------------
(* Claims C21-C25.                                                         *)

\* The equal-weight mean of the values the surviving pillars have at date t.
SurvivorMean(t) ==
    Renormalized(PresentPillars(t), [p \in PresentPillars(t) |-> normOut[p][t]],
                 [p \in PresentPillars(t) |-> Num(1)])

\* C21. Failure isolation: after a batch run that wrote the table, every pillar whose
\* normalization raised has its failure reported and no column in the table, every other
\* pillar with a raw column has its normalized column there, and at every row the
\* composite is the mean of the surviving pillars present (missing below 2 of them): the
\* weights are spread over the surviving pillars only.
C21_FailureIsolation ==
    (mode = "pipeline" /\ pc \in {"written", "rerun"}) =>
        /\ \A p \in normRaises :
              /\ Msg("normalization_failed", p) \in log
              /\ p \notin DOMAIN table.data
        /\ \A p \in NormalizedSet :
              /\ p \in DOMAIN table.data
              /\ \A i \in 1..Len(table.dates) : table.data[p][i] = normOut[p][table.dates[i]]
        /\ \A i \in 1..Len(table.dates) :
              table.data["AIBPS"][i] =
                  IF Cardinality(PresentPillars(table.dates[i])) >= 2
                  THEN SurvivorMean(table.dates[i]) ELSE NaN

\* C21 happens: a run in which one pillar's normalization raised and two others went
\* through wrote a row with a composite.
C21_Witness ==
    /\ mode = "pipeline" /\ pc = "written"
    /\ normRaises # {}
    /\ Cardinality(NormalizedSet) >= 2
    /\ \E i \in 1..Len(table.dates) : IsFinite(table.data["AIBPS"][i])

\* The files of a pillar with the columns expected in each.
Expected(p) ==
    CASE p = "Market" -> {<<"market_processed.csv", "Market">>}
      [] p = "Credit" -> {<<"credit_fred_processed.csv", "Credit">>}
      [] p = "Capex_Supply" -> {<<"capex_processed.csv", "Capex_Supply">>,
                                <<"capex_processed.csv", "Capex_Supply_Manual">>,
                                <<"macro_capex_processed.csv", "Capex_Supply_Macro">>}
      [] p = "Infra" -> {<<"infra_processed.csv", "Infra">>,
                         <<"infra_processed.csv", "Infra_Manual">>,
                         <<"infra_macro_processed.csv", "Infra_Macro">>}
      [] p = "Adoption" -> {<<"adoption_processed.csv", "Adoption">>}
      [] p = "Sentiment" -> {<<"sentiment_processed.csv", "Sentiment">>}

\* No file of pillar p is there, readable, non-empty and has an expected column; and the
\* same, with a Market or Credit file counted as a source whatever its columns are.
NoSource(p) == \A e \in Expected(p) : ~HasCol(read_processed(files[e[1]]), e[2])
NoSourceButFirstColumn(p) ==
    /\ NoSource(p)
    /\ p \in {"Market", "Credit"} => \A e \in Expected(p) : read_processed(files[e[1]]) = NoneDf

\* A pillar without a raw column in a run that reached the loop's end has no column in
\* the table and no weight, and the run aborts only when no pillar was normalized.
AbsentInRun ==
    /\ (mode = "pipeline" /\ pc \in {"written", "rerun"}) =>
          \A p \in Range(canonical_pillars) :
              RawCol(p) \notin DOMAIN base =>
                  /\ p \notin DOMAIN table.data
                  /\ p \notin DOMAIN EqualWeights(PillarsUsed(BaseHarmonized(base)))
    /\ (mode = "pipeline" /\ pc = "aborted") => NormalizedSet = {}

\* C22. Absent pillar: a pillar with no source (every file of it missing, unreadable,
\* empty or, for Capex_Supply, Infra, Adoption and Sentiment, without an expected column;
\* a Market or Credit file without its column is read by its first column) has no raw
\* series, is not normalized, has no column in the table and no weight; the run exits
\* before the loop only when every pillar is without a source.
C22_AbsentPillar ==
    /\ SetupDone =>
          /\ \A p \in Range(canonical_pillars) :
                NoSourceButFirstColumn(p) => (RawCol(p) \notin DOMAIN base /\ p \notin DOMAIN params)
          /\ pc = "aborted" => \A p \in Range(canonical_pillars) : NoSourceButFirstColumn(p)
    /\ AbsentInRun

\* C22 as stated: a Market or Credit file without its expected column counts as no source.
C22_AbsentPillar_AsStated ==
    /\ SetupDone =>
          /\ \A p \in Range(canonical_pillars) :
                NoSource(p) => (RawCol(p) \notin DOMAIN base /\ p \notin DOMAIN params)
          /\ pc = "aborted" => \A p \in Range(canonical_pillars) : NoSource(p)
    /\ AbsentInRun

\* C22 happens: a run with parameters for one pillar went past another whose file is
\* there, readable and non-empty but lacks the expected column.
C22_Witness ==
    /\ SetupDone /\ pc = "loaded" /\ params # <<>>
    /\ \E p \in Range(canonical_pillars) :
          /\ NoSourceButFirstColumn(p)
          /\ \E e \in Expected(p) : read_processed(files[e[1]]).state = "frame"

\* The observations at positions up to i, and how many of them are at or below x.
ObsUpTo(i) == {j \in 1..i : ~IsNaN(series[j])}
AtOrBelow(i, x) == {j \in ObsUpTo(i) : RLeq(series[j], x)}

\* C23. expanding_percentile at position t is 100 times the fraction of the observations
\* at positions up to t whose value is at or below the value at t; it is missing where
\* the input is missing.
C23_ExpandingDefinition ==
    (NormalizeReturned /\ call.method = "expanding_percentile") =>
        /\ result.status = "ok"
        /\ \A i \in DOMAIN series :
              result.out[i] =
                  IF IsNaN(series[i]) THEN NaN
                  ELSE Rat(100 * Cardinality(AtOrBelow(i, series[i])), Cardinality(ObsUpTo(i)))

\* C24. rolling_percentile called without min_periods returns for every window >= 1,
\* with max(10, window // 4) as its min_periods: missing where the trailing window
\* holds fewer observations than that, a percentile rank where it holds at least that
\* many.
C24_RollingDefaultMinPeriods ==
    (NormalizeReturned /\ call.method = "rolling_percentile"
        /\ "min_periods" \notin DOMAIN call.kwargs /\ Passed("window", 60) >= 1)
    => /\ result.status = "ok"
       /\ \A i \in DOMAIN series :
             IF IsNaN(series[i]) \/ InWindow(i, Passed("window", 60)) < Max(10, Passed("window", 60) \div 4)
             THEN IsNaN(result.out[i])
             ELSE IsFinite(result.out[i])

\* The trailing window of at most `window` observations ending at position i.
RECURSIVE LastOf(_, _)
LastOf(xx, k) == IF Len(xx) <= k THEN xx ELSE LastOf(Tail(xx), k)
WindowObs(i, window) == LastOf(DropNa(SubSeq(series, 1, i)), window)

\* The window has no spread: its standard deviation is zero, or undefined (one value).
Flat(xx) == \A a, b \in 1..Len(xx) : xx[a] = xx[b]

\* No z-score at position i: the input is missing there, the window holds fewer
\* observations than min_periods, or its standard deviation is zero or undefined.
NoZ(i, window, min_periods) ==
    \/ IsNaN(series[i])
    \/ Len(WindowObs(i, window)) < min_periods
    \/ Flat(WindowObs(i, window))

\* C25. rolling_z is missing exactly where the input is missing, the trailing window
\* holds fewer observations than min_periods, or its standard deviation is zero or
\* undefined, and finite everywhere else, never infinite; the logistic score of
\* normalize_series is missing at exactly those positions.
C25_NoDivisionByZero ==
    /\ (mode = "normalizer" /\ pc = "returned" /\ call.fn = "rolling_z" /\ result.status = "ok") =>
          \A i \in DOMAIN series :
              IF NoZ(i, call.kwargs["window"], MinPeriodsUsed(6, call.kwargs["window"]))
              THEN IsNaN(result.out[i])
              ELSE IsFinite(result.out[i])
    /\ (NormalizeReturned /\ call.method = "rolling_z_sigmoid" /\ result.status = "ok") =>
          \A i \in DOMAIN series :
              IF NoZ(i, Passed("window", 24), MinPeriodsUsed(6, Passed("window", 24)))
              THEN IsNaN(result.out[i])
              ELSE IsFinite(result.out[i])

\* C25 happens: rolling_z returned missing at an observation whose window holds enough
\* observations, all equal, and a z-score at another.
C25_Witness ==
    /\ mode = "normalizer" /\ pc = "returned" /\ call.fn = "rolling_z" /\ result.status = "ok"
    /\ \E i \in DOMAIN series :
          /\ ~IsNaN(series[i])
          /\ Len(WindowObs(i, call.kwargs["window"])) >= Max(2, MinPeriodsUsed(6, call.kwargs["window"]))
          /\ Flat(WindowObs(i, call.kwargs["window"]))
          /\ IsNaN(result.out[i])
    /\ \E j \in DOMAIN series : IsFinite(result.out[j])

-----------------------------------------------------------------------------
(* Claims C26-C30.                                                         *)

\* C26. minmax with lower_quantile <= upper_quantile: when the two quantiles of the
\* observations coincide every observation maps to 50; otherwise an observation x maps
\* to 100 * (x - q_low) / (q_high - q_low) clipped to [0, 100]; missing inputs stay
\* missing.
C26_MinMax ==
    (NormalizeReturned /\ Lower(call.method) = "minmax") =>
        LET obs == DropNa(series)
            q_low == Quantile(obs, Passed("lower_quantile", <<1, 100>>))
            q_high == Quantile(obs, Passed("upper_quantile", <<99, 100>>))
            linear(x) == RMul(RDiv(RSub(x, q_low), RSub(q_high, q_low)), Num(100))
        IN  /\ result.status = "ok"
            /\ \A i \in DOMAIN series :
                  result.out[i] =
                      IF IsNaN(series[i]) THEN NaN
                      ELSE IF q_low = q_high THEN Num(50)
                      ELSE IF RLess(linear(series[i]), Zero) THEN Zero
                      ELSE IF RLess(Num(100), linear(series[i])) THEN Num(100)
                      ELSE linear(series[i])

\* C26 happens: minmax returned 50 at the observations of a series whose quantiles
\* coincide, and missing at its missing value.
C26_Witness ==
    /\ NormalizeReturned /\ Lower(call.method) = "minmax" /\ result.status = "ok"
    /\ \E i, j \in DOMAIN series :
          /\ IsNaN(series[i]) /\ IsNaN(result.out[i])
          /\ ~IsNaN(series[j]) /\ result.out[j] = Num(50)
    /\ \A i, j \in DOMAIN series : (~IsNaN(series[i]) /\ ~IsNaN(series[j])) => series[i] = series[j]

\* C27. Month-end normalization: the grid is the run of months from the month of the
\* earliest source row to the month of the latest, one row per month-end, and every
\* observation of an attached source column dated anywhere within month m is the value
\* of its raw column at the grid row of month m.
C27_MonthEndNormalization ==
    (SetupDone /\ Frames(files) # {}) =>
        LET rows == UNION {files[n].index : n \in Frames(files)}
        IN  /\ \A c \in DOMAIN base :
                  DOMAIN base[c] = {m \in Months : \E d, e \in rows : MonthOf(d) <= m /\ m <= MonthOf(e)}
            /\ \A p \in AttachPlan(files) :
                  \A d \in files[p[2]].index :
                      ~IsNaN(files[p[2]].data[p[3]][d]) =>
                          base[p[1]][MonthOf(d)] = files[p[2]].data[p[3]][d]

\* C28. Macro variants: in every month for which macro_capex_processed.csv as
\* fetch_macro_capex.py writes it has a Capex_Supply value, the pre-normalization
\* Capex_Supply is the mean of that value and the manual one where present; likewise
\* Infra with the Infra value of infra_macro_processed.csv as fetch_infra_macro.py writes it.
C28_MacroVariantsBlended ==
    (SetupDone /\ Frames(files) # {}) =>
        /\ \A m \in Grid(files) :
              LET manual == SourceAt("capex_processed.csv", "Capex_Supply", m)
                  macro == SourceAt("macro_capex_processed.csv", "Capex_Supply", m)
              IN  ~IsNaN(macro) =>
                      /\ "Capex_Supply_raw" \in DOMAIN base
                      /\ base["Capex_Supply_raw"][m] = MeanOfPresent(manual, macro)
        /\ \A m \in Grid(files) :
              LET manual == SourceAt("infra_processed.csv", "Infra", m)
                  macro == SourceAt("infra_macro_processed.csv", "Infra", m)
              IN  ~IsNaN(macro) =>
                      /\ "Infra_raw" \in DOMAIN base
                      /\ base["Infra_raw"][m] = MeanOfPresent(manual, macro)

\* v lies between the least and the greatest value the pillars present at date t have.
BetweenPresent(v, t) ==
    \E p, q \in PresentPillars(t) : RLeq(normOut[p][t], v) /\ RLeq(v, normOut[q][t])

\* C29. Wherever the composite of a written row is defined, it lies between the least
\* and the greatest of the pillar values present at that date, and in [0, 100]; so does
\* the aggregator's row formula for every vector of non-negative weights; the smoothed
\* composite, where defined, lies in [0, 100].
C29_CompositeBounded ==
    (mode = "pipeline" /\ pc \in {"written", "rerun"}) =>
        /\ \A i \in 1..Len(table.dates) :
              /\ IsFinite(table.data["AIBPS"][i]) =>
                    /\ BetweenPresent(table.data["AIBPS"][i], table.dates[i])
                    /\ InRange("score", table.data["AIBPS"][i])
              /\ InRange("score", table.data["AIBPS_RA"][i])
        /\ BatchDone =>
              \A t \in Dates : \A w \in WeightVectors :
                  LET c == Composite(GridRow(t), w, RunPillars)
                  IN  ~IsNaN(c) => (IsFinite(c) /\ BetweenPresent(c, t))

\* C29 happens: a written row has two pillars with different values and a third
\* missing, and its composite lies strictly between the two.
C29_Witness ==
    /\ BatchDone
    /\ \E i \in 1..Len(table.dates) :
          LET t == table.dates[i]
          IN  /\ Cardinality(PresentPillars(t)) = 2 /\ Cardinality(NormalizedSet) = 3
              /\ \E p, q \in PresentPillars(t) :
                    /\ RLess(normOut[p][t], table.data["AIBPS"][i])
                    /\ RLess(table.data["AIBPS"][i], normOut[q][t])
              /\ IsFinite(table.data["AIBPS_RA"][i])

\* C30. Every step in which the batch run exits with an error (no processed input
\* readable, no pillar normalized, an uncaught error) leaves the output table as it
\* was before the step: neither truncated nor partially rewritten.
C30_AbortLeavesTable ==
    [][(pc' \in {"aborted", "crashed"} /\ pc \notin {"aborted", "crashed"}) => table' = table]_vars

\* C30 happens: a run aborted with the table of an earlier run, rows included, on disk.
C30_Witness ==
    /\ mode = "pipeline" /\ pc = "aborted"
    /\ table.exists /\ table.dates # <<>>

====
